---------------------------- MODULE Spec2Model ----------------------------
(***************************************************************************)
(* State-machine model of homesens.py (class HomeSensorsApp): start-up     *)
(* (parse_args, check_args, timer registration), the realize handler and   *)
(* the two GLib timer callbacks do_update_date_time and do_update_values.  *)
(*                                                                         *)
(* Python values are modelled as follows.                                  *)
(*   - An optional value is a sequence: None is << >>, a present value v   *)
(*     is <<v>>.                                                           *)
(*   - The float (raw - 2731) / 10 is the exact rational [num, den].       *)
(*   - A JSON object is a TLA+ record; a key the object lacks is a field   *)
(*     the record lacks, and item["k"] on it raises KeyError.              *)
(*   - The CSS class "value-error" on a value label is that slot's error   *)
(*     flag (tempErr, humErr, cpmErr, radErr).                             *)
(* do_update_values blocks in requests.get (line 79); the model splits the *)
(* handler at that call so that the time the request is in flight is a     *)
(* state: BeginPoll runs lines 384-410 and FetchReturns runs lines 76-92   *)
(* and 411-435.  With uRadMonitor disabled the whole handler is the single *)
(* step BeginPoll.                                                         *)
(*                                                                         *)
(* Left out: the widgets and their layout and styling, the key and window  *)
(* handlers, the auxiliary "Ugmt/Duty" label (line 433), the leaf names    *)
(* -T/-H and the URL --uradmon-api (the readings and the responses are     *)
(* inputs whatever they name), and closing the window or SIGINT.           *)
(***************************************************************************)
EXTENDS Integers, Sequences, FiniteSets

VARIABLES
    pc,              \* process stage: "start", "parsed", "constructed", "realize", "main", "exited"
    exitStatus,      \* exit status of the process once pc = "exited"
    lflag,           \* HomeSensorsApp.lflag
    Uflag,           \* HomeSensorsApp.Uflag
    sensnum,         \* HomeSensorsApp.sensnum
    sensors,         \* HomeSensorsApp.sensors: key -> set of property names
    detected,        \* result of detect_sensors: "notrun", "yes", "no"
    uradmon_id,      \* HomeSensorsApp.uradmon_id (optional)
    uradmon_userid,  \* HomeSensorsApp.uradmon_userid (optional)
    uradmon_userkey, \* HomeSensorsApp.uradmon_userkey (optional)
    apiChecked,      \* what the start-up probe of the API URL met (optional; None: no probe)
    temperature,     \* self.temperature (optional rational)
    humidity,        \* self.humidity (optional)
    cpm,             \* self.cpm (optional)
    rad,             \* self.rad (optional; the attribute does not exist before its first write)
    tempErr,         \* "value-error" in tempvalue_css
    humErr,          \* "value-error" in humvalue_css
    cpmErr,          \* "value-error" in cpmvalue_css
    radErr,          \* "value-error" in radvalue_css
    clockTimer,      \* the 1 s timeout source is registered
    valuesTimer,     \* the 5 s timeout source is registered
    clockStale,      \* wall-clock time has moved on since the clock labels were set
    nActive,         \* invocations of do_update_values that have begun and not ended
    inflight,        \* HTTP requests issued by fetch_uradmon_data and not yet answered
    caller,          \* who called the running do_update_values: "none", "realize", "timer"
    rawT,            \* local newtemperature as read from sysctl in the last cycle (optional)
    rawH,            \* local newhumidity as read from sysctl in the last cycle (optional)
    newurad,         \* local newurad of the last cycle: << >> is None, <<array>> a parsed body
    wrote,           \* labels whose set_text was called in the last cycle
    prevRadErr,      \* radErr as it was when the last cycle began
    ret,             \* outcome of the last do_update_values: "none", "True", "KeyError"
    nPolls,          \* do_update_values invocations begun
    nFetches         \* fetch_uradmon_data invocations begun

vars == <<pc, exitStatus, lflag, Uflag, sensnum, sensors, detected, uradmon_id,
          uradmon_userid, uradmon_userkey, apiChecked, temperature, humidity,
          cpm, rad, tempErr, humErr, cpmErr, radErr, clockTimer, valuesTimer,
          clockStale, nActive, inflight, caller, rawT, rawH, newurad, wrote,
          prevRadErr, ret, nPolls, nFetches>>

startupVars == <<lflag, Uflag, sensnum, sensors, detected, uradmon_id,
                 uradmon_userid, uradmon_userkey, apiChecked>>

localVars == <<temperature, humidity, tempErr, humErr, rawT, rawH>>

radVars == <<cpm, rad, cpmErr, radErr>>

-----------------------------------------------------------------------------
(* Bounds of the model *)

MaxRecords == 2      \* longest fetched device array
MaxPolls == 3        \* poll cycles explored per run

(* Program constants *)

KelvinOffset == 2731
DeciDivisor == 10

None == << >>
Some(v) == <<v>>

-----------------------------------------------------------------------------
(* Inputs *)

\* Command-line option values: an option is absent (None) or carries a string.
HelpOpts == BOOLEAN
SensorOpts == {None, Some("0"), Some("1"), Some("x")}
IdOpts == {None, Some("dev"), Some("b@d")}
UserIdOpts == {None, Some("uid"), Some("b@d")}
UserKeyOpts == {None, Some("key"), Some("b@d")}
ApiOpts == {None, Some("http://h/api"), Some("nourl")}

Argvs ==
    [help : HelpOpts, l : BOOLEAN, s : SensorOpts, U : BOOLEAN,
     id : IdOpts, userid : UserIdOpts, userkey : UserKeyOpts, api : ApiOpts]

\* Leaves below dev.gpioths for a set of attached devices: each device has the
\* metadata leaves %driver and %desc and the value leaves temperature and humidity.
Leaf(num, prop, meta) == [num |-> num, prop |-> prop, meta |-> meta]

LeavesOf(devs) ==
    {Leaf(d, "driver", TRUE) : d \in devs} \cup {Leaf(d, "desc", TRUE) : d \in devs}
    \cup {Leaf(d, "temperature", FALSE) : d \in devs}
    \cup {Leaf(d, "humidity", FALSE) : d \in devs}

\* Sysctl("dev.gpioths").children: None, or the leaves found.
Discoveries == {None, Some(LeavesOf({})), Some(LeavesOf({"0"}))}

RawTemps == {None, Some(2731), Some(2985)}
RawHums == {None, Some(40), Some(41)}

Rec(id, status, c, f) == [id |-> id, status |-> status, avg_cpm |-> c, factor |-> f]
RecNoCpm(id, status, f) == [id |-> id, status |-> status, factor |-> f]

Records ==
    { Rec("dev", "1", Some(12), 1),
      Rec("dev", "1", Some(12), 2),
      Rec("dev", "1", Some(13), 1),
      Rec("dev", "0", Some(13), 1),
      Rec("dev", "1", None, 1),
      RecNoCpm("dev", "1", 1),
      Rec("other", "1", Some(13), 1) }

Arrays == UNION {[1..n -> Records] : n \in 0..MaxRecords}

-----------------------------------------------------------------------------
(* Start-up: parse_args, check_args and the rest of __init__ *)

\* int(a) for the option strings of SensorOpts; None when int() raises ValueError.
ToInt(a) ==
    CASE a = "0" -> Some(0)
      [] a = "1" -> Some(1)
      [] OTHER -> None

\* str(n) for the sensor numbers.
ToStr(n) == IF n = 0 THEN "0" ELSE "1"

\* check_valid_arg: the argument consists of [0-9a-zA-Z_-] only.
check_valid_arg(a) == a \in {"dev", "uid", "key"}

\* check_valid_url: urlparse finds a scheme and a network location.
check_valid_url(u) == u = "http://h/api"

\* An option value that makes parse_args write a diagnostic and call sys.exit(1).
BadOption(a) ==
    \/ a.s # None /\ ToInt(a.s[1]) = None
    \/ a.id # None /\ ~check_valid_arg(a.id[1])
    \/ a.userid # None /\ ~check_valid_arg(a.userid[1])
    \/ a.userkey # None /\ ~check_valid_arg(a.userkey[1])
    \/ a.api # None /\ ~check_valid_url(a.api[1])

\* How parse_args can end on argv a.  -h calls the bare name usage(), which is
\* not defined (the method is self.usage): NameError.  Options are handled in
\* command-line order, so with both -h and a bad value either comes first.
ParseOutcomes(a) ==
    LET outs == (IF a.help THEN {"NameError"} ELSE {})
                \cup (IF BadOption(a) THEN {"exit1"} ELSE {})
    IN  IF outs = {} THEN {"ok"} ELSE outs

\* parse_args.  A NameError leaves __init__ and is caught by "except Exception"
\* in the main block, which prints it and falls off the end: exit status 0.
parse_args ==
    /\ pc = "start"
    /\ \E a \in Argvs : \E out \in ParseOutcomes(a) :
        CASE out = "ok" ->
                /\ pc' = "parsed"
                /\ exitStatus' = exitStatus
                /\ lflag' = a.l
                /\ sensnum' = IF a.s = None THEN sensnum ELSE ToInt(a.s[1])[1]
                /\ Uflag' = IF a.U THEN FALSE ELSE Uflag
                /\ uradmon_id' = a.id
                /\ uradmon_userid' = a.userid
                /\ uradmon_userkey' = a.userkey
          [] out = "exit1" ->
                /\ pc' = "exited"
                /\ exitStatus' = 1
                /\ UNCHANGED <<lflag, sensnum, Uflag, uradmon_id, uradmon_userid,
                               uradmon_userkey>>
          [] OTHER ->
                /\ pc' = "exited"
                /\ exitStatus' = 0
                /\ UNCHANGED <<lflag, sensnum, Uflag, uradmon_id, uradmon_userid,
                               uradmon_userkey>>
    /\ UNCHANGED <<sensors, detected, apiChecked, localVars, radVars, clockTimer,
                   valuesTimer, clockStale, nActive, inflight, caller, newurad,
                   wrote, prevRadErr, ret, nPolls, nFetches>>

\* The regular expression of detect_sensors matches dev.gpioths.<n>.%<prop> only.
basere_match(leaf) == leaf.meta

\* The table detect_sensors builds from the children thsens (not None).
SensorTable(leaves) ==
    LET matched == {l \in leaves : basere_match(l)}
        keys == {l.num : l \in matched}
    IN  [k \in keys |-> {l.prop : l \in {m \in matched : m.num = k}}]

\* detect_sensors: the table it leaves in self.sensors and its return value.
detect_sensors(thsens) ==
    IF thsens = None
    THEN [table |-> sensors, ok |-> FALSE]
    ELSE LET t == SensorTable(thsens[1])
         IN  [table |-> t, ok |-> ~(Cardinality(DOMAIN t) < 1)]

\* Mutant of SensorSelected: the selected number is not looked up.
SensorSelected_Unchecked(table) == TRUE

\* The selected sensor is a key of the table (line 598).
SensorSelected(table) == ToStr(sensnum) \in DOMAIN table

\* uRadMonitor is on and one of its three parameters is missing (lines 583-586).
ParamsMissing ==
    Uflag /\ (uradmon_id = None \/ uradmon_userid = None \/ uradmon_userkey = None)

\* What the start-up probe of the API URL can meet: the host name does not
\* resolve; it resolves and requests.get raises (no connection, timeout after
\* 5 s); or the server answers with a status.
Probe(resolves, exc, status) == [resolves |-> resolves, exc |-> exc, status |-> status]

Probes ==
    {Probe(FALSE, TRUE, 0), Probe(TRUE, TRUE, 0), Probe(TRUE, FALSE, 200),
     Probe(TRUE, FALSE, 404)}

\* is_hostname_resolvable (lines 503-509): gethostbyname did not raise.
is_hostname_resolvable(p) == p.resolves

\* Mutant of webserver_reachable: any status below 500 counts as an answer.
webserver_reachable_Below500(p) == ~p.exc /\ p.status < 500

\* webserver_reachable (lines 511-517): no exception and status_code // 100 == 2.
webserver_reachable(p) == ~p.exc /\ p.status \div 100 = 2

\* Lines 603-604: the API does not resolve or does not respond.
ApiUnusable(p) == ~is_hostname_resolvable(p) \/ ~webserver_reachable(p)

\* check_args followed by the rest of __init__ (lines 100-253): the values are
\* set to "not read" and the two timers are registered.
check_args ==
    /\ pc = "parsed"
    /\ \E thsens \in Discoveries :
        LET U1 == IF ParamsMissing THEN FALSE ELSE Uflag
            d == detect_sensors(thsens)
        IN  /\ sensors' = d.table
            /\ detected' = IF d.ok THEN "yes" ELSE "no"
            /\ IF ~d.ok \/ lflag \/ ~SensorSelected(d.table)
               THEN /\ pc' = "exited"
                    /\ exitStatus' = 1
                    /\ Uflag' = U1
                    /\ UNCHANGED <<apiChecked, clockTimer, valuesTimer>>
               ELSE /\ pc' = "constructed"
                    /\ exitStatus' = exitStatus
                    /\ IF U1
                       THEN \E p \in Probes :
                              /\ apiChecked' = Some(p)
                              /\ Uflag' = IF ApiUnusable(p) THEN FALSE ELSE U1
                       ELSE /\ apiChecked' = apiChecked
                            /\ Uflag' = U1
                    /\ clockTimer' = TRUE
                    /\ valuesTimer' = TRUE
    /\ temperature' = None
    /\ humidity' = None
    /\ cpm' = None
    /\ UNCHANGED <<lflag, sensnum, uradmon_id, uradmon_userid, uradmon_userkey,
                   rad, tempErr, humErr, cpmErr, radErr, rawT, rawH, clockStale,
                   nActive, inflight, caller, newurad, wrote, prevRadErr, ret,
                   nPolls, nFetches>>

-----------------------------------------------------------------------------
(* do_update_values, local part (lines 384-407) *)

\* Decikelvin to Celsius: newtemperature -= 2731; newtemperature /= 10.
Celsius(raw) == [num |-> raw - KelvinOffset, den |-> DeciDivisor]

\* Mutant of UpdateTemperature: no comparison with the stored value.
UpdateTemperature_AlwaysWrites(newtemperature) ==
    IF newtemperature = None
    THEN [value |-> temperature, err |-> TRUE, wrote |-> FALSE]
    ELSE [value |-> Some(Celsius(newtemperature[1])), err |-> FALSE, wrote |-> TRUE]

\* Lines 387-398: the temperature slot after a reading (None, or a raw value).
UpdateTemperature(newtemperature) ==
    IF newtemperature = None
    THEN [value |-> temperature, err |-> TRUE, wrote |-> FALSE]
    ELSE LET c == Some(Celsius(newtemperature[1]))
         IN  IF c # temperature
             THEN [value |-> c, err |-> FALSE, wrote |-> TRUE]
             ELSE [value |-> temperature, err |-> FALSE, wrote |-> FALSE]

\* Mutant of UpdateHumidity: an absent reading is stored as the value.
UpdateHumidity_StoresNone(newhumidity) ==
    IF newhumidity = None
    THEN [value |-> newhumidity, err |-> TRUE, wrote |-> FALSE]
    ELSE IF newhumidity # humidity
         THEN [value |-> newhumidity, err |-> FALSE, wrote |-> TRUE]
         ELSE [value |-> humidity, err |-> FALSE, wrote |-> FALSE]

\* Lines 400-407: the humidity slot after a reading.
UpdateHumidity(newhumidity) ==
    IF newhumidity = None
    THEN [value |-> humidity, err |-> TRUE, wrote |-> FALSE]
    ELSE IF newhumidity # humidity
         THEN [value |-> newhumidity, err |-> FALSE, wrote |-> TRUE]
         ELSE [value |-> humidity, err |-> FALSE, wrote |-> FALSE]

\* Mutant of IssuesFetch: only every other cycle fetches.
IssuesFetch_EveryOther == Uflag = TRUE /\ nPolls % 2 = 0

\* Line 409: this cycle goes on to fetch_uradmon_data.
IssuesFetch == Uflag = TRUE

\* Mutant of MainLoopIdle: callbacks are dispatched while a poll is waiting.
MainLoopIdle_Reentrant == TRUE

\* GLib dispatches a timeout callback from the main loop, on the one thread of
\* the process, and do_update_values calls requests.get synchronously: no
\* callback is dispatched while an invocation is active.
MainLoopIdle == nActive = 0

\* Lines 384-410 for caller c: both sysctl leaves are read, both local slots are
\* updated; then the handler returns True (uRadMonitor off) or issues the
\* HTTP request and blocks.
BeginPoll(c) ==
    /\ nPolls < MaxPolls
    /\ \E t \in RawTemps, h \in RawHums :
        LET T == UpdateTemperature(t)
            H == UpdateHumidity(h)
        IN  /\ rawT' = t
            /\ rawH' = h
            /\ temperature' = T.value
            /\ tempErr' = T.err
            /\ humidity' = H.value
            /\ humErr' = H.err
            /\ wrote' = (IF T.wrote THEN {"temperature"} ELSE {})
                        \cup (IF H.wrote THEN {"humidity"} ELSE {})
    /\ prevRadErr' = radErr
    /\ newurad' = None
    /\ nPolls' = nPolls + 1
    /\ IF IssuesFetch
       THEN /\ nActive' = nActive + 1
            /\ inflight' = inflight + 1
            /\ nFetches' = nFetches + 1
            /\ caller' = c
            /\ ret' = "none"
       ELSE /\ ret' = "True"
            /\ UNCHANGED <<nActive, inflight, nFetches, caller>>
    /\ UNCHANGED <<radVars, startupVars, exitStatus, clockTimer>>

\* on_realize (lines 337-341), emitted by show_all before Gtk.main runs:
\* do_update_date_time, then do_update_values.
on_realize ==
    /\ pc = "constructed"
    /\ clockStale' = FALSE
    /\ BeginPoll("realize")
    /\ pc' = IF IssuesFetch THEN "realize" ELSE "main"
    /\ UNCHANGED valuesTimer

\* The 5 s timeout fires (line 253): do_update_values runs from the main loop.
do_update_values ==
    /\ pc = "main"
    /\ valuesTimer
    /\ MainLoopIdle
    /\ BeginPoll("timer")
    /\ UNCHANGED <<pc, valuesTimer, clockStale>>

-----------------------------------------------------------------------------
(* fetch_uradmon_data (lines 76-92) and reconciliation (lines 411-435) *)

ConnError == [exc |-> TRUE, status |-> 0, body |-> << >>]
Http(status, body) == [exc |-> FALSE, status |-> status, body |-> body]

\* What requests.get can come back with: a RequestException (no connection,
\* bad JSON), an HTTP error status, or a 200 with a device array.
Responses == {ConnError, Http(500, << >>)} \cup {Http(200, a) : a \in Arrays}

\* Lines 77-92: None on a RequestException or an error status, else the body.
fetch_uradmon_data(r) ==
    IF r.exc \/ r.status >= 400 THEN None ELSE Some(r.body)

NoMatch == [umstatus |-> None, umcpm |-> None, umfactor |-> None, raised |-> FALSE]

\* Lines 417-425: the scan over the array from item i on.  A matching item
\* overwrites umstatus, umcpm and umfactor; item["avg_cpm"] on an item without
\* that key raises KeyError, which ends the handler.
RECURSIVE Scan(_, _, _)
Scan(arr, i, acc) ==
    IF i > Len(arr)
    THEN acc
    ELSE LET item == arr[i]
         IN  IF Some(item.id) = uradmon_id
             THEN IF "avg_cpm" \notin DOMAIN item
                  THEN [acc EXCEPT !.raised = TRUE]
                  ELSE Scan(arr, i + 1,
                            [umstatus |-> Some(item.status), umcpm |-> item.avg_cpm,
                             umfactor |-> Some(item.factor), raised |-> FALSE])
             ELSE Scan(arr, i + 1, acc)

\* Lines 426-427: the matched record is active and has a count rate.
Usable(s) == s.umstatus # None /\ s.umstatus = Some("1") /\ s.umcpm # None

\* Line 430: float(umcpm) * float(umfactor).
DoseRate(umcpm, umfactor) == umcpm * umfactor

\* Mutant of FetchFlag: the error class is added but never removed.
FetchFlag_Sticky(data) == data = None \/ cpmErr

\* Lines 411-416: the error class is added to both radiation labels when the
\* fetch returned None and removed from both otherwise.
FetchFlag(data) == data = None

\* Mutant of CpmChanged: a changed dose rate also counts as a change.
CpmChanged_OrDose(s) ==
    \/ cpm # s.umcpm
    \/ (s.umcpm # None /\ rad # Some(s.umcpm[1] * s.umfactor[1]))

\* Line 428: the fetched count rate differs from the stored one.
CpmChanged(s) == cpm # s.umcpm

\* Lines 411-435 on the fetch result data: the radiation slots, the labels
\* written and the handler's outcome.
Reconcile(data) ==
    IF data = None
    THEN [cpm |-> cpm, rad |-> rad, err |-> FetchFlag(data), wrote |-> {},
          ret |-> "True"]
    ELSE LET s == Scan(data[1], 1, NoMatch)
         IN  IF s.raised
             THEN [cpm |-> cpm, rad |-> rad, err |-> FetchFlag(data), wrote |-> {},
                   ret |-> "KeyError"]
             ELSE IF Usable(s) /\ CpmChanged(s)
                  THEN [cpm |-> s.umcpm,
                        rad |-> Some(DoseRate(s.umcpm[1], s.umfactor[1])),
                        err |-> FetchFlag(data), wrote |-> {"cpm", "rad"},
                        ret |-> "True"]
                  ELSE [cpm |-> cpm, rad |-> rad, err |-> FetchFlag(data),
                        wrote |-> {}, ret |-> "True"]

\* A callback that raised returns nothing to GLib, which then drops the
\* timeout source like one that returned False; True keeps it (line 435).
KeepsSource(outcome) == outcome = "True"

\* The request issued at line 79 ends and the handler runs to its end.
FetchReturns ==
    /\ inflight > 0
    /\ \E r \in Responses :
        LET data == fetch_uradmon_data(r)
            R == Reconcile(data)
        IN  /\ newurad' = data
            /\ cpm' = R.cpm
            /\ rad' = R.rad
            /\ cpmErr' = R.err
            /\ radErr' = R.err
            /\ wrote' = wrote \cup R.wrote
            /\ ret' = R.ret
            /\ valuesTimer' = IF caller = "timer" THEN KeepsSource(R.ret)
                              ELSE valuesTimer
    /\ inflight' = inflight - 1
    /\ nActive' = nActive - 1
    /\ caller' = "none"
    /\ pc' = IF caller = "realize" THEN "main" ELSE pc
    /\ UNCHANGED <<startupVars, localVars, exitStatus, clockTimer, clockStale,
                   prevRadErr, nPolls, nFetches>>

-----------------------------------------------------------------------------
(* The clock *)

\* Wall-clock time moves past what the clock labels show.
SecondElapses ==
    /\ pc \in {"realize", "main"}
    /\ ~clockStale
    /\ clockStale' = TRUE
    /\ UNCHANGED <<pc, exitStatus, startupVars, localVars, radVars, clockTimer,
                   valuesTimer, nActive, inflight, caller, newurad, wrote,
                   prevRadErr, ret, nPolls, nFetches>>

\* The 1 s timeout fires (line 251): do_update_date_time sets both labels to now.
do_update_date_time ==
    /\ pc = "main"
    /\ clockTimer
    /\ MainLoopIdle
    /\ clockStale
    /\ clockStale' = FALSE
    /\ clockTimer' = TRUE
    /\ UNCHANGED <<pc, exitStatus, startupVars, localVars, radVars,
                   valuesTimer, nActive, inflight, caller, newurad, wrote,
                   prevRadErr, ret, nPolls, nFetches>>

-----------------------------------------------------------------------------
(* The process *)

\* The class attributes (lines 55-71) before __init__ runs; nothing is shown.
Init ==
    /\ pc = "start"
    /\ exitStatus = 0
    /\ lflag = FALSE
    /\ Uflag = TRUE
    /\ sensnum = 0
    /\ sensors = << >>
    /\ detected = "notrun"
    /\ uradmon_id = None
    /\ uradmon_userid = None
    /\ uradmon_userkey = None
    /\ apiChecked = None
    /\ temperature = None
    /\ humidity = None
    /\ cpm = None
    /\ rad = None
    /\ tempErr = FALSE
    /\ humErr = FALSE
    /\ cpmErr = FALSE
    /\ radErr = FALSE
    /\ clockTimer = FALSE
    /\ valuesTimer = FALSE
    /\ clockStale = TRUE
    /\ nActive = 0
    /\ inflight = 0
    /\ caller = "none"
    /\ rawT = None
    /\ rawH = None
    /\ newurad = None
    /\ wrote = {}
    /\ prevRadErr = FALSE
    /\ ret = "none"
    /\ nPolls = 0
    /\ nFetches = 0

Next ==
    \/ parse_args
    \/ check_args
    \/ on_realize
    \/ do_update_values
    \/ FetchReturns
    \/ SecondElapses
    \/ do_update_date_time

Spec == Init /\ [][Next]_vars

\* What the program's own scheduling guarantees: start-up runs on, wall-clock
\* time passes, and the GLib main loop dispatches a registered timeout
\* whenever it is idle.  Nothing in the program makes a request end: line 79
\* passes no timeout to requests.get, so FetchReturns happens only if the
\* server or the network answers, and it gets no fairness.
FairSpec ==
    /\ Spec
    /\ WF_vars(parse_args)
    /\ WF_vars(check_args)
    /\ WF_vars(on_realize)
    /\ WF_vars(SecondElapses)
    /\ WF_vars(do_update_date_time)
    /\ WF_vars(do_update_values)

\* FairSpec with a server that always answers in the end.
ResponsiveSpec == FairSpec /\ WF_vars(FetchReturns)

-----------------------------------------------------------------------------
(* Vocabulary of the claims *)

\* A step in which a poll cycle begins: the local part of do_update_values runs.
PollBegins == nPolls' = nPolls + 1

\* A step in which a fetch comes back and the cycle that issued it ends.
FetchEnds == inflight' = inflight - 1

\* A step in which a poll cycle ends.
CycleEnds == FetchEnds \/ (PollBegins /\ ~Uflag)

\* Positions of the records of arr whose id is the configured device id.
Matches(arr, id) == {i \in 1..Len(arr) : Some(arr[i].id) = id}

\* The last record of arr, in array order, with the configured device id.
LastMatch(arr, id) ==
    arr[CHOOSE i \in Matches(arr, id) : \A j \in Matches(arr, id) : j <= i]

\* arr has a record of the configured device, and the last one is active
\* ("1") and carries a count rate.
ValidMatch(arr, id) ==
    /\ Matches(arr, id) # {}
    /\ LET m == LastMatch(arr, id)
       IN  /\ m.status = "1"
           /\ "avg_cpm" \in DOMAIN m
           /\ m.avg_cpm # None

-----------------------------------------------------------------------------
(* C1 *)

\* C1: in every poll cycle and for each of temperature and humidity, when the
\* raw reading is present the slot is written in that cycle if and only if
\* the converted reading ((raw - 2731) / 10 for temperature, raw for
\* humidity) differs from the value stored before the cycle; a written slot
\* holds the converted reading, an unwritten one keeps its value, and the
\* slot's error flag is cleared either way.
C1_ChangeDetection ==
    [][PollBegins =>
        /\ rawT' # None =>
            LET c == Some([num |-> rawT'[1] - 2731, den |-> 10])
            IN  /\ ("temperature" \in wrote') <=> (c # temperature)
                /\ temperature' = c
                /\ ("temperature" \notin wrote') => temperature' = temperature
                /\ ~tempErr'
        /\ rawH' # None =>
            /\ ("humidity" \in wrote') <=> (rawH' # humidity)
            /\ humidity' = rawH'
            /\ ("humidity" \notin wrote') => humidity' = humidity
            /\ ~humErr'
    ]_vars

\* An unchanged temperature reading arrived in a second cycle while humidity
\* was absent: nothing was written and the temperature flag is clear.
C1_Witness ==
    /\ nPolls >= 2
    /\ rawT = Some(2985)
    /\ temperature = Some([num |-> 254, den |-> 10])
    /\ "temperature" \notin wrote
    /\ ~tempErr
    /\ rawH = None

-----------------------------------------------------------------------------
(* C2 *)

\* C2: in a poll cycle where the read of one local property returns None, the
\* error flag of that slot is set and its stored value is the one from before
\* the cycle; the other local slot follows its own reading alone (present:
\* flag clear, value the reading; absent: flag set, value kept), and the local
\* part of the cycle touches no radiation flag.
C2_AbsentReading ==
    [][PollBegins =>
        /\ rawT' = None =>
            /\ tempErr' /\ temperature' = temperature
            /\ rawH' # None => (~humErr' /\ humidity' = rawH')
        /\ rawH' = None =>
            /\ humErr' /\ humidity' = humidity
            /\ rawT' # None =>
                (~tempErr' /\ temperature' = Some([num |-> rawT'[1] - 2731, den |-> 10]))
        /\ (rawT' = None \/ rawH' = None) => (cpmErr' = cpmErr /\ radErr' = radErr)
    ]_vars

\* Humidity was read and stored, then a cycle read temperature but no
\* humidity: the humidity flag is set, its value kept, temperature is fine.
C2_Witness ==
    /\ rawH = None
    /\ humErr
    /\ humidity = Some(41)
    /\ rawT = Some(2731)
    /\ ~tempErr
    /\ temperature = Some([num |-> 0, den |-> 10])

-----------------------------------------------------------------------------
(* C3 *)

\* C3: a cycle whose fetch returns None leaves cpm and rad as they were and
\* sets the error flag of both radiation slots; a cycle whose fetch succeeds
\* with a valid matching record ends with both flags clear, also when the
\* fetched count rate is the stored one.
C3_TransportFailure ==
    [][FetchEnds =>
        /\ newurad' = None =>
            (cpm' = cpm /\ rad' = rad /\ cpmErr' /\ radErr')
        /\ (newurad' # None /\ ValidMatch(newurad'[1], uradmon_id)) =>
            (~cpmErr' /\ ~radErr')
    ]_vars

\* The flags were set when the cycle began, the fetch brought a valid record
\* with the stored count rate (nothing written), and both flags are clear.
C3_Witness ==
    /\ prevRadErr
    /\ ret = "True"
    /\ newurad # None
    /\ ValidMatch(newurad[1], uradmon_id)
    /\ cpm = Some(12)
    /\ "cpm" \notin wrote
    /\ ~cpmErr /\ ~radErr

-----------------------------------------------------------------------------
(* C4 *)

\* C4: a cycle whose fetch succeeds but brings no record of the configured
\* device, or one whose last matching record is not active ("1") or carries no
\* count rate, ends with cpm and rad as they were and with the error flag of
\* both radiation slots set.
C4_InvalidDataFlagged ==
    [][(FetchEnds /\ newurad' # None /\ ~ValidMatch(newurad'[1], uradmon_id)) =>
        (cpm' = cpm /\ rad' = rad /\ cpmErr' /\ radErr')
    ]_vars

\* What the code does in the case of C4: the values are kept, and both flags
\* are cleared.
C4_InvalidDataUnflagged ==
    [][(FetchEnds /\ newurad' # None /\ ~ValidMatch(newurad'[1], uradmon_id)) =>
        (cpm' = cpm /\ rad' = rad /\ ~cpmErr' /\ ~radErr')
    ]_vars

-----------------------------------------------------------------------------
(* C5 *)

\* C5: a cycle whose fetch succeeds and whose last record with the configured
\* id is active and carries a count rate ends with cpm equal to that record's
\* avg_cpm and with no radiation error flag, whatever records precede it.
C5_LastMatchWins ==
    [][(FetchEnds /\ newurad' # None /\ ValidMatch(newurad'[1], uradmon_id)) =>
        /\ cpm' = LastMatch(newurad'[1], uradmon_id).avg_cpm
        /\ ~cpmErr' /\ ~radErr'
    ]_vars

\* Every record of arr with the configured id has the key avg_cpm.
CountRateKeyed(arr, id) == \A i \in Matches(arr, id) : "avg_cpm" \in DOMAIN arr[i]

\* C5 on arrays whose matching records all have the key avg_cpm: the last
\* match decides, with all its fields.
C5_LastMatchWinsKeyed ==
    [][(/\ FetchEnds /\ newurad' # None
        /\ ValidMatch(newurad'[1], uradmon_id)
        /\ CountRateKeyed(newurad'[1], uradmon_id)) =>
        /\ cpm' = LastMatch(newurad'[1], uradmon_id).avg_cpm
        /\ ~cpmErr' /\ ~radErr'
        /\ "rad" \in wrote' =>
            rad' = Some(cpm'[1] * LastMatch(newurad'[1], uradmon_id).factor)
    ]_vars

-----------------------------------------------------------------------------
(* C6 *)

\* C6: rad is written only in a step that ends a fetch and writes cpm, and is
\* then the new cpm times the factor of the last matching record; a cycle
\* whose valid matching record has the stored count rate leaves rad as it
\* was, whatever the record's factor.
C6_DoseFollowsCount ==
    [][/\ ~FetchEnds => rad' = rad
       /\ FetchEnds =>
            /\ rad' # rad => "rad" \in wrote'
            /\ "rad" \in wrote' =>
                /\ "cpm" \in wrote'
                /\ cpm' # cpm
                /\ newurad' # None
                /\ rad' = Some(cpm'[1] * LastMatch(newurad'[1], uradmon_id).factor)
            /\ (/\ newurad' # None
                /\ ValidMatch(newurad'[1], uradmon_id)
                /\ LastMatch(newurad'[1], uradmon_id).avg_cpm = cpm) =>
                    (rad' = rad /\ "rad" \notin wrote')
    ]_vars

\* The last fetch brought the stored count rate 12 with factor 2, and rad is
\* still the 12 computed with factor 1.
C6_Witness ==
    /\ ret = "True"
    /\ newurad = Some(<<Rec("dev", "1", Some(12), 2)>>)
    /\ cpm = Some(12)
    /\ rad = Some(12)
    /\ "rad" \notin wrote

-----------------------------------------------------------------------------
(* C7 *)

\* C7: every poll cycle, failed or not, runs to its end: do_update_values
\* returns True, the process is still running and the 5 s timeout source is
\* still registered.
C7_PollingContinues ==
    [][CycleEnds => (ret' = "True" /\ pc' # "exited" /\ valuesTimer')]_vars

\* The failures of C7 that the code survives: an absent local reading, a
\* fetch that returned None, and an array without a usable record in which
\* every record of the device has the key avg_cpm.
C7_SurvivedFailures ==
    [][(/\ CycleEnds
        /\ \/ ~FetchEnds
           \/ newurad' = None
           \/ CountRateKeyed(newurad'[1], uradmon_id)) =>
        (ret' = "True" /\ pc' # "exited" /\ valuesTimer')
    ]_vars

-----------------------------------------------------------------------------
(* C8 *)

\* The key under which the selected sensor number is looked up.
SelectedKey == IF sensnum = 0 THEN "0" ELSE "1"

\* The process is past start-up: a timer is registered or a poll has run.
Polling ==
    \/ pc \in {"constructed", "realize", "main"}
    \/ clockTimer \/ valuesTimer
    \/ nPolls > 0

\* C8: the timers are registered and polls run only if discovery found a
\* sensor and the selected index is a key of the sensor table; once discovery
\* has run and found no sensor, or the selected index is not in the table,
\* the process has exited with a non-zero status and no poll has run.
C8_StartupGate ==
    /\ Polling =>
        (detected = "yes" /\ DOMAIN sensors # {} /\ SelectedKey \in DOMAIN sensors)
    /\ (detected # "notrun" /\ (DOMAIN sensors = {} \/ SelectedKey \notin DOMAIN sensors)) =>
        (pc = "exited" /\ exitStatus # 0 /\ ~Polling)

\* Discovery found sensor 0, -s 1 was given without -l: the process exited
\* with status 1 before any timer was registered.
C8_Witness ==
    /\ detected = "yes"
    /\ DOMAIN sensors = {"0"}
    /\ sensnum = 1
    /\ ~lflag
    /\ pc = "exited"
    /\ exitStatus = 1
    /\ ~valuesTimer

-----------------------------------------------------------------------------
(* C9 *)

\* C9: at most one invocation of do_update_values is active and at most one
\* fetch is in flight, in every reachable state.
C9_NoOverlap == nActive <= 1 /\ inflight <= 1

\* A poll started by the 5 s timer is waiting for its fetch, with the clock
\* timer due (the labels are stale) and the timers registered.
C9_Witness ==
    /\ caller = "timer"
    /\ nActive = 1
    /\ inflight = 1
    /\ valuesTimer /\ clockTimer
    /\ clockStale

-----------------------------------------------------------------------------
(* C10 *)

\* C10: the remote fetch has a timer of its own with a longer interval than
\* the local poll's, so no two consecutive local polls both issue a fetch:
\* once two polls have run, fewer fetches than polls have been issued.
C10_FetchLessOften == nPolls >= 2 => nFetches < nPolls

\* C10 as amended: local poll and remote fetch are steps of the one callback
\* do_update_values on the one 5 s timer.  With uRadMonitor enabled every poll
\* cycle issues exactly one fetch, with it disabled none does; the number of
\* fetches never exceeds the number of polls.
C10_OneTimer ==
    /\ nFetches <= nPolls
    /\ Uflag => nFetches = nPolls
    /\ ~Uflag => nFetches = 0

\* Two poll cycles have run with uRadMonitor enabled, and two fetches.
C10_Witness ==
    /\ Uflag
    /\ pc = "main"
    /\ nPolls = 2
    /\ nFetches = 2
    /\ nActive = 0

-----------------------------------------------------------------------------
(* C11 *)

\* C11: a fetch that a poll cycle has issued always ends, also when the
\* server never responds, and the main loop then runs its callbacks again:
\* whenever a request is in flight, eventually none is, no poll is active and
\* the clock labels have been set to the current time again.
C11_StalledFetchEnds ==
    (inflight > 0) ~> (inflight = 0 /\ nActive = 0 /\ ~clockStale)

\* C11 with a server that always answers in the end: the same property, under
\* ResponsiveSpec.
C11_AnsweredFetchEnds ==
    (inflight > 0) ~> (inflight = 0 /\ nActive = 0 /\ ~clockStale)

\* While a request is in flight no callback can be dispatched: neither timer
\* callback is enabled until FetchReturns has happened.
C11_BlockedWhileInFlight ==
    (inflight > 0) => (~ENABLED do_update_date_time /\ ~ENABLED do_update_values)

-----------------------------------------------------------------------------
(* C12 *)

\* Start-up is over: __init__ has returned.
AfterStartup == pc \in {"constructed", "realize", "main"}

=============================================================================
